---- MODULE Spec2Model ----
(***************************************************************************)
(* Verification model of bitrise-steplib/steps-cache-download.            *)
(*                                                                         *)
(* The repository's sources are modelled as six small state machines:     *)
(*   SpecRestore  - the RestoreReader used by archive.go (readFirstEntry)  *)
(*   SpecArchive  - archive.go: readFirstEntry and extractCacheArchive     *)
(*   SpecDownload - the step that resolves the download URL through the    *)
(*                  cache API, downloads with one retry and runs tar       *)
(*   SpecPull     - steps-cache-pull/main.go: download with one retry,     *)
(*                  read the cache info from the archive, extract into a   *)
(*                  temp directory, move the items to their places         *)
(*   SpecRun      - the run with the stack compatibility gate, whose code  *)
(*                  is not among the sources: modelled from the           *)
(*                  specification (sections 2, 4.6, 4.7, 6 and 7)          *)
(*   SpecUntar    - untarFile and its handlers (writeNewFile, mkdir,       *)
(*                  writeNewSymbolicLink, writeNewHardLink), applied to    *)
(*                  the entries of an archive one after the other          *)
(*                                                                         *)
(* A stream is a sequence of abstract units.  A unit stands for one tar    *)
(* block when the stream is read by archive/tar and for one byte of the    *)
(* gzip member header when it is read by compress/gzip.                    *)
(***************************************************************************)
EXTENDS Integers, Sequences, FiniteSets, TLC

\* ------------------------------------------------------------------ bounds
MaxLen == 3        \* longest input stream, in units
MaxEntries == 2    \* most entries of a downloaded archive
MaxItems == 2      \* most items of a cache info (manifest)
MaxChunk == 2      \* largest single Read request of the RestoreReader client
ReadAhead == 2     \* units the gzip decoder's buffered reader may pull beyond the header
MaxTarEntries == 2 \* most entries of an archive extracted entry by entry

\* ------------------------------------------------------------------ units
IsZeroBlock(u) == u = 0             \* an all-zero tar block (end-of-archive padding)
HdrUnits == {1, 2}                  \* valid tar header blocks of two different entries
GzipMagic == <<31, 139>>            \* ID1, ID2 of a gzip member header
Deflated(u) == u + 100              \* the compressed form of tar unit u
TarUnits == {0} \cup HdrUnits
DeflatedUnits == {Deflated(u) : u \in TarUnits}
Inflated(c) == c - 100              \* what the decoder yields for compressed unit c
Units == TarUnits \cup {31, 139} \cup DeflatedUnits

Min(a, b) == IF a < b THEN a ELSE b

SeqsUpTo(S, n) == UNION {[1..k -> S] : k \in 0..n}

Take(s, n) == SubSeq(s, 1, Min(n, Len(s)))
Drop(s, n) == SubSeq(s, Min(n, Len(s)) + 1, Len(s))

IsPrefix(p, s) == Len(p) <= Len(s) /\ SubSeq(s, 1, Len(p)) = p

VARIABLES
    stream,     \* the bytes of the wrapped single-pass source, as given
    rr,         \* the RestoreReader: [src, buff, replay, restored]
    restores,   \* number of Restore() calls so far
    specRead,   \* units handed out before Restore() (the speculative attempt)
    out         \* units handed out after Restore()

VARIABLES
    call,       \* which function of archive.go is running
    apc,        \* its position: "gzip", "restore", "tar", "extract", "returned"
    archive,    \* the reader handed to tar.NewReader: "none", "gzip", "raw"
    gzBuf,      \* units the gzip decoder has pulled but not yet decoded
    tarSeen,    \* units the tar reader has been given, in order
    ret,        \* what the running function returned
    rdIsCloser, \* extractCacheArchive: r implements io.ReadCloser
    rdOpen      \* extractCacheArchive: r has not been closed

VARIABLES
    cfgURL,      \* the configured cache URL (cache_api_url / cache_download_url)
    mpc,         \* main's position
    fpc,         \* downloadFileWithRetry's position
    apiResp,     \* the cache API's response to getCacheDownloadURL
    downloadURL, \* the URL getCacheDownloadURL returned
    attempts,    \* number of downloadFile calls
    slept,       \* number of backoff sleeps
    attemptErrs, \* the error of each downloadFile call, in order
    lastBody,    \* the response body of the latest downloadFile call that got one
    dlErr,       \* what downloadFileWithRetry returned
    localFile,   \* the local archive file: [exists, data]
    extracted,   \* tar has extracted the archive
    exited,      \* the process has ended
    exitCode,    \* its exit status
    fatalMsg     \* the message of the log.Fatalf that ended it, "" if none

VARIABLES
    arch,        \* the downloaded archive file, as its readers will find it
    cacheInfo,   \* what readCacheInfoFromArchive returned: [contents]
    tmpFiles,    \* relative paths present in the temp extraction directory
    placed,      \* <<destination, relative path>> of every item moved into place
    placeIdx,    \* index of the next cache item of the placement loop
    itemRes,     \* outcome of every cache item processed so far, in order
    warnLog,     \* the " [!] Failed ..." lines logged by the placement loop
    ucRet,       \* what uncompressCaches returned
    stages,      \* the stages of the run started so far, in order
    stageDone    \* how many of them have completed successfully

VARIABLES
    goos,        \* runtime.GOOS
    tarEntries,  \* the headers (with payload) of the archive, in archive order
    utIdx,       \* index of the next entry to extract
    utpc,        \* the extraction: "none", "run", "done", "failed"
    fsys,        \* the filesystem: [dirs, nodes]
    fsOps,       \* the filesystem calls made so far, in order, each with its entry
    utRes        \* what untarFile returned for each entry handled, in order

VARIABLES
    manifestStack, \* the stack id recorded in the archive's manifest ("" = unset)
    currentStack,  \* the stack id of the current environment ("" = unset)
    allowFallback, \* the allow_fallback input
    decision       \* the gate's decision: "none", "proceed", "abort"

restoreVars == <<stream, rr, restores, specRead, out>>
archVars == <<call, apc, archive, gzBuf, tarSeen, ret, rdIsCloser, rdOpen>>
fetchVars == <<fpc, apiResp, downloadURL, attempts, slept, attemptErrs, lastBody,
               dlErr, localFile>>
mainVars == <<cfgURL, mpc, extracted, exited, exitCode, fatalMsg>>

pullVars == <<arch, cacheInfo, tmpFiles, placed, placeIdx, itemRes, warnLog, ucRet,
              stages, stageDone>>

gateVars == <<manifestStack, currentStack, allowFallback, decision>>

untarVars == <<goos, tarEntries, utIdx, utpc, fsys, fsOps, utRes>>

vars == <<restoreVars, archVars, fetchVars, mainVars, pullVars, gateVars, untarVars>>

\* What each specification leaves alone.
frameRestore == <<archVars, fetchVars, mainVars, pullVars, gateVars, untarVars>>
frameArchive == <<out, fetchVars, mainVars, pullVars, gateVars, untarVars>>
frameDownload == <<restoreVars, archVars, pullVars, gateVars, untarVars>>
framePull == <<restoreVars, archVars, gateVars, untarVars>>
frameRun == <<restoreVars, archVars, fetchVars, arch, cacheInfo, tmpFiles, placeIdx,
              itemRes, warnLog, ucRet, untarVars>>
frameUntar == <<restoreVars, archVars, fetchVars, mainVars, pullVars, gateVars>>

\* The values of the variables a specification does not use.
IdleRestore ==
    /\ stream = <<>> /\ rr = [src |-> <<>>, buff |-> <<>>, replay |-> <<>>, restored |-> FALSE]
    /\ restores = 0 /\ specRead = <<>> /\ out = <<>>
IdleArchive ==
    /\ call = "none" /\ apc = "none" /\ archive = "none" /\ gzBuf = <<>>
    /\ tarSeen = <<>> /\ ret = [kind |-> "none"]
    /\ rdIsCloser = FALSE /\ rdOpen = FALSE
IdleFetch ==
    /\ fpc = "idle" /\ apiResp = [net |-> "none", status |-> 0, body |-> ""] /\ downloadURL = ""
    /\ attempts = 0 /\ slept = 0 /\ attemptErrs = <<>> /\ lastBody = <<>>
    /\ dlErr = "none" /\ localFile = [exists |-> FALSE, data |-> <<>>]
IdleMain ==
    /\ cfgURL = "" /\ mpc = "none" /\ extracted = FALSE
    /\ exited = FALSE /\ exitCode = 0 /\ fatalMsg = ""
NoArchive ==
    [openOk |-> FALSE, gz |-> FALSE, entries |-> <<>>, infoOk |-> FALSE,
     contents |-> <<>>]
IdleGate ==
    /\ manifestStack = "" /\ currentStack = "" /\ allowFallback = FALSE
    /\ decision = "none"
IdleUntar ==
    /\ goos = "none" /\ tarEntries = <<>> /\ utIdx = 0 /\ utpc = "none"
    /\ fsys = [dirs |-> {}, nodes |-> <<>>] /\ fsOps = <<>> /\ utRes = <<>>
IdlePull ==
    /\ arch = NoArchive /\ cacheInfo = [contents |-> <<>>]
    /\ tmpFiles = {} /\ placed = {} /\ placeIdx = 0 /\ itemRes = <<>>
    /\ warnLog = <<>> /\ ucRet = "none" /\ stages = <<>> /\ stageDone = 0

\* ------------------------------------------------------------ RestoreReader
\* NewRestoreReader(r): nothing buffered, nothing to replay.
NewRestoreReader(s) ==
    [src |-> s, buff |-> <<>>, replay |-> <<>>, restored |-> FALSE]

\* A plausible bug: the probing phase hands bytes out without recording them.
RRRead_NoRecord(r, n) ==
    IF r.replay # <<>>
    THEN [r |-> [r EXCEPT !.replay = Drop(r.replay, n)], data |-> Take(r.replay, n)]
    ELSE [r |-> [r EXCEPT !.src = Drop(r.src, n)], data |-> Take(r.src, n)]

\* Read(p) with len(p) = n: the replay queue first, then the underlying source;
\* while probing every unit taken from the source is also recorded in buff.
RRRead(r, n) ==
    IF r.replay # <<>>
    THEN [r |-> [r EXCEPT !.replay = Drop(r.replay, n)], data |-> Take(r.replay, n)]
    ELSE [r |-> [r EXCEPT !.src = Drop(r.src, n),
                          !.buff = IF r.restored THEN r.buff
                                   ELSE r.buff \o Take(r.src, n)],
          data |-> Take(r.src, n)]

\* Restore(): the recorded units are queued for replay; recording stops.
RRRestore(r) ==
    [r EXCEPT !.replay = r.buff, !.buff = <<>>, !.restored = TRUE]

RRAtEOF(r) == r.replay = <<>> /\ r.src = <<>>

\* -------------------------------------------------------------- SpecRestore
InitRestore ==
    /\ stream \in SeqsUpTo(Units, MaxLen)
    /\ rr = NewRestoreReader(stream)
    /\ restores = 0
    /\ specRead = <<>>
    /\ out = <<>>
    /\ IdleArchive /\ IdleFetch /\ IdleMain /\ IdlePull /\ IdleGate /\ IdleUntar

\* The speculative consumer reads up to n units before Restore().
SpeculativeRead ==
    /\ restores = 0
    /\ \E n \in 1..MaxChunk :
          LET res == RRRead(rr, n) IN
          /\ rr' = res.r
          /\ specRead' = specRead \o res.data
    /\ UNCHANGED <<stream, restores, out, frameRestore>>

Restore ==
    /\ restores = 0
    /\ rr' = RRRestore(rr)
    /\ restores' = restores + 1
    /\ UNCHANGED <<stream, specRead, out, frameRestore>>

\* The second consumer reads up to n units after Restore().
ReadAfterRestore ==
    /\ restores = 1
    /\ ~RRAtEOF(rr)
    /\ \E n \in 1..MaxChunk :
          LET res == RRRead(rr, n) IN
          /\ rr' = res.r
          /\ out' = out \o res.data
    /\ UNCHANGED <<stream, restores, specRead, frameRestore>>

NextRestore == SpeculativeRead \/ Restore \/ ReadAfterRestore

SpecRestore == InitRestore /\ [][NextRestore]_vars

\* C1: Restore fidelity.  Whatever prefix of the stream was consumed before the
\* single Restore(), the units read afterwards, followed by what is still queued
\* for replay and what is still unread in the source, are exactly the stream; so
\* once the reader is at end of stream the units read after Restore() are the
\* whole stream, in order, nothing lost or duplicated.
RestoreFidelity ==
    restores = 1 =>
        /\ IsPrefix(specRead, stream)
        /\ out \o rr.replay \o rr.src = stream
        /\ (RRAtEOF(rr) => out = stream)

\* A proper, non-empty prefix was consumed, restored, and the whole stream read back.
RestoreFidelityWitness ==
    /\ restores = 1
    /\ RRAtEOF(rr)
    /\ Len(specRead) > 0
    /\ Len(specRead) < Len(stream)
    /\ out = stream

\* ------------------------------------------------------------- archive.go
\* io.ReadFull on the RestoreReader: Read is repeated until k units were got or
\* the reader is at end of stream.
RECURSIVE RRReadFull(_, _)
RRReadFull(r, k) ==
    IF k = 0 \/ RRAtEOF(r)
    THEN [r |-> r, data |-> <<>>]
    ELSE LET one == RRRead(r, k)
             more == RRReadFull(one.r, k - Len(one.data))
         IN  [r |-> more.r, data |-> one.data \o more.data]

\* gzip.NewReader reads the member header: it succeeds exactly when the stream
\* starts with the gzip magic.
GzipHeaderOk(data) ==
    /\ Len(data) >= Len(GzipMagic)
    /\ Take(data, Len(GzipMagic)) = GzipMagic

\* One unit from the reader handed to tar.NewReader.  "raw" reads the
\* RestoreReader itself; "gzip" takes the next compressed unit (from the decoder's
\* buffer first) and inflates it, failing on input that is not deflate data.
ArchiveReadUnit(kind, r, buf) ==
    IF kind = "raw"
    THEN LET res == RRRead(r, 1)
         IN  [r |-> res.r, buf |-> buf, data |-> res.data, err |-> FALSE]
    ELSE LET res == IF buf # <<>>
                    THEN [r |-> r, data |-> <<Head(buf)>>]
                    ELSE RRRead(r, 1)
             rest == IF buf # <<>> THEN Tail(buf) ELSE buf
         IN  IF res.data = <<>>
             THEN [r |-> res.r, buf |-> rest, data |-> <<>>, err |-> FALSE]
             ELSE IF res.data[1] \in DeflatedUnits
                  THEN [r |-> res.r, buf |-> rest,
                        data |-> <<Inflated(res.data[1])>>, err |-> FALSE]
                  ELSE [r |-> res.r, buf |-> rest, data |-> <<>>, err |-> TRUE]

\* tar.Reader.Next on a fresh reader: io.EOF on an empty stream and on zero
\* padding (one zero block at end of stream, or two of them); the header of the
\* first entry on a valid header block; an error otherwise.
TarNext(kind, r, buf) ==
    LET b1 == ArchiveReadUnit(kind, r, buf) IN
    IF b1.err
    THEN [r |-> b1.r, buf |-> b1.buf, seen |-> <<>>, ret |-> [kind |-> "error"]]
    ELSE IF b1.data = <<>>
    THEN [r |-> b1.r, buf |-> b1.buf, seen |-> <<>>, ret |-> [kind |-> "eof"]]
    ELSE IF b1.data[1] \in HdrUnits
    THEN [r |-> b1.r, buf |-> b1.buf, seen |-> b1.data,
          ret |-> [kind |-> "header", hdr |-> b1.data[1]]]
    ELSE IF IsZeroBlock(b1.data[1])
    THEN LET b2 == ArchiveReadUnit(kind, b1.r, b1.buf) IN
         IF b2.err
         THEN [r |-> b2.r, buf |-> b2.buf, seen |-> b1.data,
               ret |-> [kind |-> "error"]]
         ELSE IF b2.data = <<>> \/ IsZeroBlock(b2.data[1])
         THEN [r |-> b2.r, buf |-> b2.buf, seen |-> b1.data \o b2.data,
               ret |-> [kind |-> "eof"]]
         ELSE [r |-> b2.r, buf |-> b2.buf, seen |-> b1.data \o b2.data,
               ret |-> [kind |-> "error"]]
    ELSE [r |-> b1.r, buf |-> b1.buf, seen |-> b1.data, ret |-> [kind |-> "error"]]

InitArchive ==
    /\ stream \in SeqsUpTo(Units, MaxLen)
    /\ call \in {"readFirstEntry", "extractCacheArchive"}
    /\ rr = NewRestoreReader(stream)          \* archive.go:48
    /\ restores = 0
    /\ specRead = <<>>
    /\ out = <<>>
    /\ apc = IF call = "readFirstEntry" THEN "gzip" ELSE "extract"
    /\ archive = "none"
    /\ gzBuf = <<>>
    /\ tarSeen = <<>>
    /\ ret = [kind |-> "none"]
    /\ rdIsCloser \in (IF call = "extractCacheArchive" THEN BOOLEAN ELSE {FALSE})
    /\ rdOpen = (call = "extractCacheArchive")
    /\ IdleFetch /\ IdleMain /\ IdlePull /\ IdleGate /\ IdleUntar

\* archive.go:55-56.  The decoder's buffered reader pulls the header and up to
\* ReadAhead units more; a short or wrong header is an error.
GzipNewReader ==
    /\ apc = "gzip"
    /\ \E k \in Len(GzipMagic)..(Len(GzipMagic) + ReadAhead) :
          LET res == RRReadFull(rr, k) IN
          /\ rr' = res.r
          /\ specRead' = res.data
          /\ IF GzipHeaderOk(res.data)
             THEN /\ archive' = "gzip"
                  /\ gzBuf' = Drop(res.data, Len(GzipMagic))
                  /\ apc' = "tar"
             ELSE /\ archive' = "none"
                  /\ gzBuf' = <<>>
                  /\ apc' = "restore"
    /\ UNCHANGED <<stream, restores, call, tarSeen, ret, rdIsCloser, rdOpen, frameArchive>>

\* A plausible bug: the failed gzip attempt is not rewound.
RestoreAndUseRaw_NoRestore ==
    /\ apc = "restore"
    /\ archive' = "raw"
    /\ apc' = "tar"
    /\ UNCHANGED <<stream, rr, restores, specRead, call, gzBuf, tarSeen, ret,
                   rdIsCloser, rdOpen, frameArchive>>

\* archive.go:56-63: restoreReader.Restore(); archive = restoreReader.
RestoreAndUseRaw ==
    /\ apc = "restore"
    /\ rr' = RRRestore(rr)
    /\ restores' = restores + 1
    /\ archive' = "raw"
    /\ apc' = "tar"
    /\ UNCHANGED <<stream, specRead, call, gzBuf, tarSeen, ret, rdIsCloser, rdOpen,
                   frameArchive>>

\* A plausible bug: end of archive on the first header is returned as an error.
ReadFirstHeader_EofIsError ==
    /\ apc = "tar"
    /\ LET t == TarNext(archive, rr, gzBuf) IN
       /\ rr' = t.r
       /\ gzBuf' = t.buf
       /\ tarSeen' = tarSeen \o t.seen
       /\ ret' = IF t.ret.kind = "eof" THEN [kind |-> "error"] ELSE t.ret
    /\ apc' = "returned"
    /\ UNCHANGED <<stream, restores, specRead, call, archive, rdIsCloser, rdOpen,
                   frameArchive>>

\* archive.go:65-75: tar.NewReader(archive); tr.Next(); the three returns.
ReadFirstHeader ==
    /\ apc = "tar"
    /\ LET t == TarNext(archive, rr, gzBuf) IN
       /\ rr' = t.r
       /\ gzBuf' = t.buf
       /\ tarSeen' = tarSeen \o t.seen
       /\ ret' = IF t.ret.kind = "eof" THEN [kind |-> "empty"] ELSE t.ret
    /\ apc' = "returned"
    /\ UNCHANGED <<stream, restores, specRead, call, archive, rdIsCloser, rdOpen,
                   frameArchive>>

\* archive.go:29-44.  The tar subprocess reads some of its standard input and
\* exits; r is closed (when it is an io.ReadCloser) only on the success path.
ExtractCacheArchive ==
    /\ apc = "extract"
    /\ \E k \in 0..MaxLen, ok \in BOOLEAN, closeOk \in BOOLEAN :
          /\ rr' = RRReadFull(rr, k).r
          /\ IF ~ok
             THEN /\ ret' = [kind |-> "error", err |-> "tar failed"]
                  /\ rdOpen' = rdOpen
             ELSE IF rdIsCloser
             THEN /\ ret' = IF closeOk THEN [kind |-> "nil"]
                            ELSE [kind |-> "error", err |-> "close failed"]
                  /\ rdOpen' = FALSE
             ELSE /\ ret' = [kind |-> "nil"]
                  /\ rdOpen' = rdOpen
    /\ apc' = "returned"
    /\ UNCHANGED <<stream, restores, specRead, call, archive, gzBuf, tarSeen,
                   rdIsCloser, frameArchive>>

NextArchive ==
    \/ GzipNewReader
    \/ RestoreAndUseRaw
    \/ ReadFirstHeader
    \/ ExtractCacheArchive

SpecArchive == InitArchive /\ [][NextArchive]_vars

\* The compressed form of a sequence of tar units.
DeflatedSeq(s) == [i \in 1..Len(s) |-> Deflated(s[i])]

\* C2: readFirstEntry takes exactly one of two paths.  When the stream starts
\* with the gzip header the tar reader reads through the decoder (what it is
\* given is the inflated form of the units that follow the header) and Restore()
\* is never called; otherwise Restore() is called exactly once and the tar reader
\* is given the original stream from offset 0, so nothing the failed gzip attempt
\* consumed is lost.
SniffPathsExclusive ==
    (call = "readFirstEntry") =>
        /\ restores <= 1
        /\ (apc \in {"tar", "returned"}) => archive \in {"gzip", "raw"}
        /\ (archive = "gzip") =>
              /\ GzipHeaderOk(stream)
              /\ restores = 0
              /\ IsPrefix(DeflatedSeq(tarSeen), Drop(stream, Len(GzipMagic)))
        /\ (archive = "raw") =>
              /\ ~GzipHeaderOk(stream)
              /\ restores = 1
              /\ IsPrefix(tarSeen, stream)
              /\ (apc = "tar" => rr.replay \o rr.src = stream)

\* The gzip attempt consumed units, failed, and the tar reader still got the
\* first header of the raw archive.
SniffRawWitness ==
    /\ call = "readFirstEntry"
    /\ apc = "returned"
    /\ archive = "raw"
    /\ Len(specRead) >= 2
    /\ ret.kind = "header"
    /\ tarSeen = <<stream[1]>>

\* The stream opened as gzip and the tar reader got the inflated first header.
SniffGzipWitness ==
    /\ call = "readFirstEntry"
    /\ apc = "returned"
    /\ archive = "gzip"
    /\ restores = 0
    /\ ret.kind = "header"

\* The blocks the archive consists of, as the tar reader is to find them: the
\* stream itself, or what follows the gzip header, inflated (-1 stands for a
\* unit that is not deflate data).
TarInput ==
    IF archive = "gzip"
    THEN [i \in 1..(Len(stream) - Len(GzipMagic)) |->
             IF stream[i + Len(GzipMagic)] \in DeflatedUnits
             THEN Inflated(stream[i + Len(GzipMagic)])
             ELSE -1]
    ELSE stream

\* The archive ends before any entry: nothing at all, or zero padding only.
ZeroEntries(t) ==
    \/ t = <<>>
    \/ /\ IsZeroBlock(t[1])
       /\ (Len(t) = 1 \/ IsZeroBlock(t[2]))

\* C12: readFirstEntry on a stream without any archive entry returns 'empty'
\* (no reader, no header, no error) and not an error; it returns the header of
\* the first entry, with the reader having consumed that header block and no
\* more, when the archive starts with an entry; it returns an error in every
\* other case, that is only when reading the first header failed for a reason
\* other than end of archive.
FirstEntryResult ==
    (call = "readFirstEntry" /\ apc = "returned") =>
        /\ ret.kind \in {"empty", "header", "error"}
        /\ (ret.kind = "empty") <=> ZeroEntries(TarInput)
        /\ (ret.kind = "empty") => ret = [kind |-> "empty"]
        /\ (ret.kind = "header") <=> (TarInput # <<>> /\ TarInput[1] \in HdrUnits)
        /\ (ret.kind = "header") =>
              /\ ret.hdr = TarInput[1]
              /\ tarSeen = <<TarInput[1]>>
        /\ (ret.kind = "error") => ret = [kind |-> "error"]

\* A gzip archive holding zero padding only: 'empty' was returned.
FirstEntryEmptyWitness ==
    /\ call = "readFirstEntry"
    /\ apc = "returned"
    /\ archive = "gzip"
    /\ Len(stream) > Len(GzipMagic)
    /\ ret = [kind |-> "empty"]

\* C10: a scoped resource that was acquired is released on every exit path; in
\* particular the input stream handed to extractCacheArchive is closed when
\* extractCacheArchive has returned, also when the tar subprocess failed.
ExtractClosesStream ==
    (call = "extractCacheArchive" /\ apc = "returned" /\ rdIsCloser) => ~rdOpen

\* ------------------------------------------------------ getCacheDownloadURL
\* What the cache API may answer: the request cannot be built, cannot be sent,
\* its body cannot be read, or a status with a body arrives.
ApiStatuses == {199, 200, 201, 202, 203, 404}
ApiBodies == {"<html>", "{}", "{download_url: ''}", "{download_url: 7}",
              "{download_url: 'https://store/archive'}"}
ApiResponses ==
    [net : {"bad request", "send failed", "read failed", "ok"},
     status : ApiStatuses, body : ApiBodies]

\* json.Unmarshal(body, &respModel) into GenerateDownloadURLRespModel: not JSON
\* and a download_url of the wrong type are errors; an absent field leaves the
\* URL empty.
Unmarshal(body) ==
    CASE body = "{}" -> [ok |-> TRUE, url |-> ""]
      [] body = "{download_url: ''}" -> [ok |-> TRUE, url |-> ""]
      [] body = "{download_url: 'https://store/archive'}" ->
            [ok |-> TRUE, url |-> "https://store/archive"]
      [] OTHER -> [ok |-> FALSE, url |-> ""]

\* A plausible bug: the accepted status range is one too narrow.
GetCacheDownloadURL_Narrow(resp) ==
    IF resp.net = "bad request" THEN [url |-> "", err |-> "create request"]
    ELSE IF resp.net = "send failed" THEN [url |-> "", err |-> "send request"]
    ELSE IF resp.net = "read failed" THEN [url |-> "", err |-> "read body"]
    ELSE IF resp.status < 200 \/ resp.status > 201
    THEN [url |-> "", err |-> "cache not found"]
    ELSE IF ~Unmarshal(resp.body).ok THEN [url |-> "", err |-> "parse JSON"]
    ELSE IF Unmarshal(resp.body).url = "" THEN [url |-> "", err |-> "empty URL"]
    ELSE [url |-> Unmarshal(resp.body).url, err |-> "nil"]

GetCacheDownloadURL(resp) ==
    IF resp.net = "bad request" THEN [url |-> "", err |-> "create request"]
    ELSE IF resp.net = "send failed" THEN [url |-> "", err |-> "send request"]
    ELSE IF resp.net = "read failed" THEN [url |-> "", err |-> "read body"]
    ELSE IF resp.status < 200 \/ resp.status > 202
    THEN [url |-> "", err |-> "cache not found"]
    ELSE IF ~Unmarshal(resp.body).ok THEN [url |-> "", err |-> "parse JSON"]
    ELSE IF Unmarshal(resp.body).url = "" THEN [url |-> "", err |-> "empty URL"]
    ELSE [url |-> Unmarshal(resp.body).url, err |-> "nil"]

\* ------------------------------------------------------------- downloadFile
\* What one GET of the archive may meet: os.Create fails or not, http.Get fails
\* or not, a status, a body, and how many chunks of it io.Copy writes before it
\* fails (all of them when it does not).
FileBodies == {<<"a1">>, <<"b1", "b2">>}
FetchEnvs ==
    {e \in [createOk : BOOLEAN, getOk : BOOLEAN, status : {200, 404},
            body : FileBodies, copied : 0..2] : e.copied <= Len(e.body)}

\* A plausible bug: the local file is opened for appending instead of being
\* created anew, so what it held stays in front of what is written.
DownloadFile_NoTruncate(e, file) ==
    IF ~e.createOk THEN [err |-> "create file", file |-> file]
    ELSE IF ~e.getOk
    THEN [err |-> "request", file |-> [exists |-> TRUE, data |-> file.data]]
    ELSE IF e.status # 200
    THEN [err |-> "non success response code",
          file |-> [exists |-> TRUE, data |-> file.data]]
    ELSE IF e.copied < Len(e.body)
    THEN [err |-> "save",
          file |-> [exists |-> TRUE, data |-> file.data \o Take(e.body, e.copied)]]
    ELSE [err |-> "nil", file |-> [exists |-> TRUE, data |-> file.data \o e.body]]

DownloadFile(e, file) ==
    IF ~e.createOk THEN [err |-> "create file", file |-> file]
    ELSE IF ~e.getOk
    THEN [err |-> "request", file |-> [exists |-> TRUE, data |-> <<>>]]
    ELSE IF e.status # 200
    THEN [err |-> "non success response code", file |-> [exists |-> TRUE, data |-> <<>>]]
    ELSE IF e.copied < Len(e.body)
    THEN [err |-> "save", file |-> [exists |-> TRUE, data |-> Take(e.body, e.copied)]]
    ELSE [err |-> "nil", file |-> [exists |-> TRUE, data |-> e.body]]

\* ------------------------------------------------------------- SpecDownload
InitDownload ==
    /\ cfgURL \in {"", "https://api/cache"}
    /\ mpc = "start"
    /\ fpc = "idle"
    /\ apiResp = [net |-> "none", status |-> 0, body |-> ""]
    /\ downloadURL = ""
    /\ attempts = 0 /\ slept = 0 /\ attemptErrs = <<>> /\ lastBody = <<>>
    /\ dlErr = "none"
    /\ localFile \in {[exists |-> FALSE, data |-> <<>>],
                      [exists |-> TRUE, data |-> <<"old1", "old2", "old3">>]}
    /\ extracted = FALSE /\ exited = FALSE /\ exitCode = 0 /\ fatalMsg = ""
    /\ IdleRestore /\ IdleArchive /\ IdlePull /\ IdleGate /\ IdleUntar

\* main: no URL configured ends the run successfully; otherwise
\* downloadFileWithRetry is called.
MainStart ==
    /\ mpc = "start"
    /\ IF cfgURL = ""
       THEN /\ mpc' = "exit" /\ exited' = TRUE /\ exitCode' = 0
            /\ UNCHANGED fpc
       ELSE /\ mpc' = "download" /\ fpc' = "resolve"
            /\ UNCHANGED <<exited, exitCode>>
    /\ UNCHANGED <<cfgURL, extracted, fatalMsg, apiResp, downloadURL, attempts, slept,
                   attemptErrs, lastBody, dlErr, localFile, frameDownload>>

\* downloadFileWithRetry: getCacheDownloadURL; its error is returned as it is.
Resolve ==
    /\ fpc = "resolve"
    /\ \E resp \in ApiResponses :
          LET res == GetCacheDownloadURL(resp) IN
          /\ apiResp' = resp
          /\ downloadURL' = res.url
          /\ IF res.err # "nil"
             THEN dlErr' = res.err /\ fpc' = "returned"
             ELSE dlErr' = dlErr /\ fpc' = "fetch1"
    /\ UNCHANGED <<attempts, slept, attemptErrs, lastBody, localFile, mainVars,
                   frameDownload>>

\* downloadFileWithRetry: the first downloadFile.
FetchFirst ==
    /\ fpc = "fetch1"
    /\ \E e \in FetchEnvs :
          LET res == DownloadFile(e, localFile) IN
          /\ localFile' = res.file
          /\ attempts' = attempts + 1
          /\ attemptErrs' = Append(attemptErrs, res.err)
          /\ lastBody' = IF e.createOk /\ e.getOk /\ e.status = 200 THEN e.body ELSE lastBody
          /\ IF res.err # "nil"
             THEN dlErr' = dlErr /\ fpc' = "sleep"
             ELSE dlErr' = "nil" /\ fpc' = "returned"
    /\ UNCHANGED <<apiResp, downloadURL, slept, mainVars, frameDownload>>

\* downloadFileWithRetry: time.Sleep(3000 * time.Millisecond).
Backoff ==
    /\ fpc = "sleep"
    /\ slept' = slept + 1
    /\ fpc' = "fetch2"
    /\ UNCHANGED <<apiResp, downloadURL, attempts, attemptErrs, lastBody, dlErr,
                   localFile, mainVars, frameDownload>>

\* A plausible bug: a failed retry is retried again.
FetchRetry_Again ==
    /\ fpc = "fetch2"
    /\ \E e \in FetchEnvs :
          LET res == DownloadFile(e, localFile) IN
          /\ localFile' = res.file
          /\ attempts' = attempts + 1
          /\ attemptErrs' = Append(attemptErrs, res.err)
          /\ lastBody' = IF e.createOk /\ e.getOk /\ e.status = 200 THEN e.body ELSE lastBody
          /\ IF res.err # "nil" /\ attempts < 3
             THEN dlErr' = dlErr /\ fpc' = "fetch2"
             ELSE dlErr' = res.err /\ fpc' = "returned"
    /\ UNCHANGED <<apiResp, downloadURL, slept, mainVars, frameDownload>>

\* downloadFileWithRetry: return downloadFile(downloadURL, localPath).
FetchRetry ==
    /\ fpc = "fetch2"
    /\ \E e \in FetchEnvs :
          LET res == DownloadFile(e, localFile) IN
          /\ localFile' = res.file
          /\ attempts' = attempts + 1
          /\ attemptErrs' = Append(attemptErrs, res.err)
          /\ lastBody' = IF e.createOk /\ e.getOk /\ e.status = 200 THEN e.body ELSE lastBody
          /\ dlErr' = res.err
          /\ fpc' = "returned"
    /\ UNCHANGED <<apiResp, downloadURL, slept, mainVars, frameDownload>>

\* main: log.Fatalf when downloadFileWithRetry returned an error.
MainAfterDownload ==
    /\ mpc = "download"
    /\ fpc = "returned"
    /\ IF dlErr # "nil"
       THEN /\ mpc' = "exit" /\ exited' = TRUE /\ exitCode' = 1
            /\ fatalMsg' = dlErr
       ELSE /\ mpc' = "uncompress"
            /\ UNCHANGED <<exited, exitCode, fatalMsg>>
    /\ UNCHANGED <<cfgURL, extracted, fetchVars, frameDownload>>

\* main: uncompressCaches runs tar -xPf on the local file; log.Fatalf when it fails.
MainUncompress ==
    /\ mpc = "uncompress"
    /\ \E tarOk \in BOOLEAN :
          IF tarOk
          THEN /\ extracted' = TRUE /\ exitCode' = 0 /\ fatalMsg' = fatalMsg
          ELSE /\ extracted' = FALSE /\ exitCode' = 1
               /\ fatalMsg' = "uncompress"
    /\ mpc' = "exit"
    /\ exited' = TRUE
    /\ UNCHANGED <<cfgURL, fetchVars, frameDownload>>

NextDownload ==
    \/ MainStart
    \/ Resolve
    \/ FetchFirst
    \/ Backoff
    \/ FetchRetry
    \/ MainAfterDownload
    \/ MainUncompress

SpecDownload == InitDownload /\ [][NextDownload]_vars

\* getCacheDownloadURL succeeded: downloadFileWithRetry went on to fetch.
Resolved == downloadURL # ""

\* C3: downloadFileWithRetry makes at most two downloadFile calls.  A first call
\* that succeeds is the only one; a first call that fails is followed by one
\* backoff sleep and exactly one more call, whose result (nil or its error,
\* unchanged) is what downloadFileWithRetry returns.  There is no third call, and
\* until it has returned the function always has a next step, so it terminates.
RetryAtMostOnce ==
    /\ attempts <= 2
    /\ Len(attemptErrs) = attempts
    /\ slept <= 1
    /\ (attempts = 2) => (slept = 1 /\ attemptErrs[1] # "nil")
    /\ (attempts >= 1 /\ attemptErrs[1] = "nil") => (attempts = 1 /\ slept = 0)
    /\ (fpc = "returned" /\ Resolved) =>
          /\ attempts >= 1
          /\ dlErr = attemptErrs[attempts]
          /\ (attemptErrs[1] # "nil") => attempts = 2
    /\ (fpc \in {"resolve", "fetch1", "sleep", "fetch2"}) =>
          ENABLED (Resolve \/ FetchFirst \/ Backoff \/ FetchRetry)

\* Both attempts failed, with different errors, and the second error is returned.
RetryWitness ==
    /\ fpc = "returned"
    /\ attempts = 2
    /\ slept = 1
    /\ attemptErrs[1] = "request"
    /\ attemptErrs[2] = "non success response code"
    /\ dlErr = "non success response code"

\* The download URL a response body carries: the string value of its
\* download_url field, "" when the body is not JSON or has no such string.
BodyURL(body) ==
    IF body = "{download_url: 'https://store/archive'}"
    THEN "https://store/archive"
    ELSE ""

ResolveErrors == {"cache not found", "parse JSON", "empty URL"}

FetchTruncates ==
    (attemptErrs # <<>>) =>
        LET n == Len(attemptErrs)
            last == attemptErrs[n]
        IN  /\ n = attempts
            /\ (last \in {"request", "non success response code"}) =>
                  localFile = [exists |-> TRUE, data |-> <<>>]
            /\ (last = "save") =>
                  /\ localFile.exists
                  /\ IsPrefix(localFile.data, lastBody)
                  /\ Len(localFile.data) < Len(lastBody)
            /\ (last = "nil") => localFile = [exists |-> TRUE, data |-> lastBody]
            /\ (n = 2 /\ fpc = "returned" /\ dlErr = "nil") =>
                  /\ attemptErrs[1] # "nil"
                  /\ localFile = [exists |-> TRUE, data |-> lastBody]

\* The first attempt failed while copying, the second succeeded with a body of
\* one unit, and that unit is all the file holds.
FetchTruncatesWitness ==
    /\ attemptErrs = <<"save", "nil">>
    /\ fpc = "returned" /\ dlErr = "nil"
    /\ Len(lastBody) = 1
    /\ localFile = [exists |-> TRUE, data |-> lastBody]

\* C8: when the cache API answers 404 the run ends with status zero and the
\* 'cache not initialised' message, without any download or extraction.
NotFoundExitsZero ==
    (exited /\ apiResp.net = "ok" /\ apiResp.status = 404) =>
        /\ exitCode = 0
        /\ attempts = 0
        /\ ~extracted

\* ------------------------------------------------- steps-cache-pull/main.go
\* An archive entry is the cache info file, a cached file, or a header the tar
\* reader cannot parse.
CacheInfoName == "./cache-info.json"
EntryNames == {CacheInfoName, "./f1", "corrupt"}

\* A cache item: where it lies in the archive and where it belongs.
CacheItems == [rel : {"f1", "f2"}, dest : {"/d1/f", "/d2/f"}]

InEntries(a, name) == \E i \in 1..Len(a.entries) : a.entries[i] = name

\* The archive files a download may have produced.  Fields nothing can read are
\* kept at one value: the entries of a file that is not gzip, the cache info of
\* an archive without a decodable cache info file.
PullArchives ==
    {a \in [openOk : BOOLEAN, gz : BOOLEAN,
            entries : SeqsUpTo(EntryNames, MaxEntries),
            infoOk : BOOLEAN,
            contents : SeqsUpTo(CacheItems, MaxItems)] :
        /\ (~a.openOk \/ ~a.gz) => (a.entries = <<>> /\ a.openOk # a.gz)
        /\ (~InEntries(a, CacheInfoName)) => ~a.infoOk
        /\ (~a.infoOk) => a.contents = <<>>}

RECURSIVE ScanForCacheInfo(_, _)

\* A plausible bug: a header that cannot be read is skipped like any other entry.
ScanForCacheInfo_SkipsTarError(a, i) ==
    IF i > Len(a.entries)
    THEN [err |-> "cache info not found", contents |-> <<>>, scanned |-> i - 1]
    ELSE IF a.entries[i] = CacheInfoName
    THEN IF a.infoOk
         THEN [err |-> "nil", contents |-> a.contents, scanned |-> i]
         ELSE [err |-> "cache info JSON", contents |-> <<>>, scanned |-> i]
    ELSE ScanForCacheInfo(a, i + 1)

\* The loop of readCacheInfoFromArchive from entry i on: a tar error on a header
\* that cannot be read, the decoded cache info (or the decode error) at the first
\* entry named ./cache-info.json, 'not found' at end of archive.
ScanForCacheInfo(a, i) ==
    IF i > Len(a.entries)
    THEN [err |-> "cache info not found", contents |-> <<>>, scanned |-> i - 1]
    ELSE IF a.entries[i] = "corrupt"
    THEN [err |-> "tar error", contents |-> <<>>, scanned |-> i]
    ELSE IF a.entries[i] = CacheInfoName
    THEN IF a.infoOk
         THEN [err |-> "nil", contents |-> a.contents, scanned |-> i]
         ELSE [err |-> "cache info JSON", contents |-> <<>>, scanned |-> i]
    ELSE ScanForCacheInfo(a, i + 1)

ReadCacheInfoFromArchive(a) ==
    IF ~a.openOk THEN [err |-> "open archive", contents |-> <<>>, scanned |-> 0]
    ELSE IF ~a.gz THEN [err |-> "gzip reader", contents |-> <<>>, scanned |-> 0]
    ELSE ScanForCacheInfo(a, 1)

\* What tar -xvzf leaves in the temp directory: every entry it could read.
ExtractedFiles(a) ==
    {"cache-info.json" : i \in {j \in 1..Len(a.entries) : a.entries[j] = CacheInfoName}}
    \cup {"f1" : i \in {j \in 1..Len(a.entries) : a.entries[j] = "./f1"}}

TarCanExtract(a) == a.openOk /\ a.gz /\ ~InEntries(a, "corrupt")

\* os.MkdirAll of the target's directory, then os.Rename of the source: the
\* outcome for one cache item.
PlaceOutcome(item, files, mkdirOk, renameOk) ==
    IF ~mkdirOk THEN "mkdir failed"
    ELSE IF item.rel \notin files THEN "rename: no such file"
    ELSE IF ~renameOk THEN "rename failed"
    ELSE "ok"

InitPull ==
    /\ cfgURL \in {"", "https://store/archive"}
    /\ mpc = "start"
    /\ fpc = "idle"
    /\ apiResp = [net |-> "none", status |-> 0, body |-> ""]
    /\ downloadURL = ""
    /\ attempts = 0 /\ slept = 0 /\ attemptErrs = <<>> /\ lastBody = <<>>
    /\ dlErr = "none"
    /\ localFile = [exists |-> FALSE, data |-> <<>>]
    /\ extracted = FALSE /\ exited = FALSE /\ exitCode = 0 /\ fatalMsg = ""
    /\ IdlePull
    /\ IdleRestore /\ IdleArchive /\ IdleGate /\ IdleUntar

\* main.go:209-238.  No URL: nothing to do.  Otherwise the temp directory for the
\* download is made (fatal when that fails) and the download stage starts.
PullStart ==
    /\ mpc = "start"
    /\ \E tmpOk \in BOOLEAN :
          IF cfgURL = ""
          THEN /\ mpc' = "exit" /\ exited' = TRUE /\ exitCode' = 0
               /\ UNCHANGED <<fpc, downloadURL, fatalMsg, stages>>
          ELSE IF ~tmpOk
          THEN /\ mpc' = "exit" /\ exited' = TRUE /\ exitCode' = 1
               /\ fatalMsg' = "temp directory"
               /\ UNCHANGED <<fpc, downloadURL, stages>>
          ELSE /\ mpc' = "download" /\ fpc' = "fetch1"
               /\ downloadURL' = cfgURL
               /\ stages' = Append(stages, "download")
               /\ UNCHANGED <<exited, exitCode, fatalMsg>>
    /\ UNCHANGED <<cfgURL, extracted, apiResp, attempts, slept, attemptErrs, lastBody,
                   dlErr, localFile, arch, cacheInfo, tmpFiles, placed, placeIdx,
                   itemRes, warnLog, ucRet, stageDone, framePull>>

\* A plausible bug: the error of the download is logged but does not end the run.
PullAfterDownload_GoesOn ==
    /\ mpc = "download"
    /\ fpc = "returned"
    /\ \E a \in PullArchives :
          /\ arch' = a
          /\ mpc' = "readInfo"
          /\ stageDone' = IF dlErr = "nil" THEN stageDone + 1 ELSE stageDone
          /\ stages' = Append(stages, "manifest")
          /\ UNCHANGED <<exited, exitCode, fatalMsg>>
    /\ UNCHANGED <<cfgURL, extracted, fetchVars, cacheInfo, tmpFiles, placed, placeIdx,
                   itemRes, warnLog, ucRet, framePull>>

\* main.go:238-250.  A failed download is fatal; otherwise the download stage is
\* complete and the cache info is read from the downloaded archive.
PullAfterDownload ==
    /\ mpc = "download"
    /\ fpc = "returned"
    /\ IF dlErr # "nil"
       THEN /\ mpc' = "exit" /\ exited' = TRUE /\ exitCode' = 1
            /\ fatalMsg' = dlErr
            /\ UNCHANGED <<arch, stages, stageDone>>
       ELSE \E a \in PullArchives :
               /\ arch' = a
               /\ mpc' = "readInfo"
               /\ stageDone' = stageDone + 1
               /\ stages' = Append(stages, "manifest")
               /\ UNCHANGED <<exited, exitCode, fatalMsg>>
    /\ UNCHANGED <<cfgURL, extracted, fetchVars, cacheInfo, tmpFiles, placed, placeIdx,
                   itemRes, warnLog, ucRet, framePull>>

\* main.go:250-262 with readCacheInfoFromArchive (main.go:63-104).
PullReadInfo ==
    /\ mpc = "readInfo"
    /\ LET res == ReadCacheInfoFromArchive(arch) IN
       IF res.err # "nil"
       THEN /\ mpc' = "exit" /\ exited' = TRUE /\ exitCode' = 1
            /\ fatalMsg' = res.err
            /\ UNCHANGED <<cacheInfo, stages, stageDone>>
       ELSE /\ cacheInfo' = [contents |-> res.contents]
            /\ mpc' = "extract"
            /\ stageDone' = stageDone + 1
            /\ stages' = Append(stages, "extract")
            /\ UNCHANGED <<exited, exitCode, fatalMsg>>
    /\ UNCHANGED <<cfgURL, extracted, fetchVars, arch, tmpFiles, placed, placeIdx,
                   itemRes, warnLog, ucRet, framePull>>

\* uncompressCaches, main.go:117-132: the temp directory and tar -xvzf; either
\* failing makes uncompressCaches return an error, which is fatal (main.go:262-265).
PullExtract ==
    /\ mpc = "extract"
    /\ \E tmpOk \in BOOLEAN, tarOk \in BOOLEAN :
          IF tmpOk /\ tarOk /\ TarCanExtract(arch)
          THEN /\ tmpFiles' = ExtractedFiles(arch)
               /\ extracted' = TRUE
               /\ placeIdx' = 1
               /\ mpc' = "place"
               /\ stageDone' = stageDone + 1
               /\ stages' = Append(stages, "place")
               /\ UNCHANGED <<ucRet, exited, exitCode, fatalMsg>>
          ELSE /\ ucRet' = "error"
               /\ mpc' = "exit" /\ exited' = TRUE /\ exitCode' = 1
               /\ fatalMsg' = "uncompress caches"
               /\ UNCHANGED <<tmpFiles, extracted, placeIdx, stages, stageDone>>
    /\ UNCHANGED <<cfgURL, fetchVars, arch, cacheInfo, placed, itemRes, warnLog,
                   framePull>>

\* A plausible bug: a cache item that cannot be placed makes uncompressCaches fail.
PullPlaceItem_Abort ==
    /\ mpc = "place"
    /\ placeIdx <= Len(cacheInfo.contents)
    /\ \E mkdirOk \in BOOLEAN, renameOk \in BOOLEAN :
          LET item == cacheInfo.contents[placeIdx]
              res == PlaceOutcome(item, tmpFiles, mkdirOk, renameOk)
          IN  /\ itemRes' = Append(itemRes, res)
              /\ IF res = "ok"
                 THEN /\ tmpFiles' = tmpFiles \ {item.rel}
                      /\ placed' = {q \in placed : q[1] # item.dest}
                                      \cup {<<item.dest, item.rel>>}
                      /\ placeIdx' = placeIdx + 1
                      /\ UNCHANGED <<warnLog, ucRet, mpc, exited, exitCode, fatalMsg>>
                 ELSE /\ warnLog' = Append(warnLog, [item |-> placeIdx, why |-> res])
                      /\ ucRet' = "error"
                      /\ mpc' = "exit" /\ exited' = TRUE /\ exitCode' = 1
                      /\ fatalMsg' = "uncompress caches"
                      /\ UNCHANGED <<tmpFiles, placed, placeIdx>>
    /\ UNCHANGED <<cfgURL, extracted, fetchVars, arch, cacheInfo, stages, stageDone,
                   framePull>>

\* uncompressCaches, main.go:134-153: one pass of the loop over the cache items.
\* A target directory that cannot be made, or a move that fails, is logged and the
\* loop continues with the next item.
PullPlaceItem ==
    /\ mpc = "place"
    /\ placeIdx <= Len(cacheInfo.contents)
    /\ \E mkdirOk \in BOOLEAN, renameOk \in BOOLEAN :
          LET item == cacheInfo.contents[placeIdx]
              res == PlaceOutcome(item, tmpFiles, mkdirOk, renameOk)
          IN  /\ itemRes' = Append(itemRes, res)
              /\ IF res = "ok"
                 THEN /\ tmpFiles' = tmpFiles \ {item.rel}
                      /\ placed' = {q \in placed : q[1] # item.dest}
                                      \cup {<<item.dest, item.rel>>}
                      /\ UNCHANGED warnLog
                 ELSE /\ warnLog' = Append(warnLog, [item |-> placeIdx, why |-> res])
                      /\ UNCHANGED <<tmpFiles, placed>>
    /\ placeIdx' = placeIdx + 1
    /\ UNCHANGED <<cfgURL, mpc, extracted, exited, exitCode, fatalMsg, fetchVars, arch,
                   cacheInfo, ucRet, stages, stageDone, framePull>>

\* uncompressCaches returns the temp directory and nil (main.go:155); main then
\* requires cache-info.json in it (main.go:266-272).
PullPlaceDone ==
    /\ mpc = "place"
    /\ placeIdx > Len(cacheInfo.contents)
    /\ ucRet' = "nil"
    /\ stageDone' = stageDone + 1
    /\ \E statOk \in BOOLEAN :
          IF ~statOk
          THEN /\ mpc' = "exit" /\ exited' = TRUE /\ exitCode' = 1
               /\ fatalMsg' = "check cache info"
          ELSE IF "cache-info.json" \notin tmpFiles
          THEN /\ mpc' = "exit" /\ exited' = TRUE /\ exitCode' = 1
               /\ fatalMsg' = "cache info not found in uncompressed data"
          ELSE /\ mpc' = "export"
               /\ UNCHANGED <<exited, exitCode, fatalMsg>>
    /\ UNCHANGED <<cfgURL, extracted, fetchVars, arch, cacheInfo, tmpFiles, placed,
                   placeIdx, itemRes, warnLog, stages, framePull>>

\* main.go:294-302: BITRISE_CACHE_INFO_PATH is exported with envman.
PullExport ==
    /\ mpc = "export"
    /\ \E envmanOk \in BOOLEAN :
          IF envmanOk
          THEN exitCode' = 0 /\ fatalMsg' = fatalMsg
          ELSE exitCode' = 1 /\ fatalMsg' = "export"
    /\ mpc' = "exit"
    /\ exited' = TRUE
    /\ UNCHANGED <<cfgURL, extracted, fetchVars, pullVars, framePull>>

NextPull ==
    \/ PullStart
    \/ FetchFirst
    \/ Backoff
    \/ FetchRetry
    \/ PullAfterDownload
    \/ PullReadInfo
    \/ PullExtract
    \/ PullPlaceItem
    \/ PullPlaceDone
    \/ PullExport

SpecPull == InitPull /\ [][NextPull]_vars

\* Indices of the processed cache items that were skipped.
SkippedItems == {i \in 1..Len(itemRes) : itemRes[i] # "ok"}

\* Indices of the cache items whose source path is not in the extracted archive.
MissingSources ==
    {i \in 1..Len(cacheInfo.contents) :
        cacheInfo.contents[i].rel \notin ExtractedFiles(arch)}

DistinctSources ==
    \A i, j \in 1..Len(cacheInfo.contents) :
        cacheInfo.contents[i].rel = cacheInfo.contents[j].rel => i = j

FirstIndex(a, name) ==
    IF InEntries(a, name)
    THEN CHOOSE i \in 1..Len(a.entries) :
            /\ a.entries[i] = name
            /\ \A j \in 1..(i - 1) : a.entries[j] # name
    ELSE 0

\* readCacheInfoFromArchive has returned to main.
ReadInfoReturned == Len(stages) >= 2 /\ mpc # "readInfo"

\* C11: the cache info scan.  For an archive that opens as gzip, the entries are
\* read in order up to the first one named ./cache-info.json or the first one
\* whose header cannot be read, whichever comes first.  The decoded cache info
\* of that first ./cache-info.json entry is what main receives; 'not found' is
\* the error exactly when the scan went through every entry (none, for an empty
\* archive) and met neither; a tar error and a decode error are errors of their
\* own.  Any error ends the run with that error's message.
CacheInfoScan ==
    (ReadInfoReturned /\ arch.openOk /\ arch.gz) =>
        LET res == ReadCacheInfoFromArchive(arch)
            firstInfo == FirstIndex(arch, CacheInfoName)
            firstBad == FirstIndex(arch, "corrupt")
            infoFirst == firstInfo > 0 /\ (firstBad = 0 \/ firstInfo < firstBad)
            badFirst == firstBad > 0 /\ (firstInfo = 0 \/ firstBad < firstInfo)
        IN  /\ (stageDone >= 2) <=> (res.err = "nil")
            /\ (res.err = "nil") <=> (infoFirst /\ arch.infoOk)
            /\ (res.err = "nil") =>
                  /\ cacheInfo.contents = arch.contents
                  /\ res.scanned = firstInfo
            /\ (res.err # "nil") =>
                  /\ exited /\ exitCode = 1 /\ fatalMsg = res.err
                  /\ cacheInfo.contents = <<>>
            /\ (res.err = "cache info not found") <=> (firstInfo = 0 /\ firstBad = 0)
            /\ (res.err = "cache info not found") => res.scanned = Len(arch.entries)
            /\ (res.err = "tar error") <=> badFirst
            /\ (res.err = "cache info JSON") <=> (infoFirst /\ ~arch.infoOk)

\* An archive without any entry: the run ended with 'not found'.
CacheInfoScanWitness ==
    /\ ReadInfoReturned
    /\ arch.openOk /\ arch.gz /\ arch.entries = <<>>
    /\ exited /\ fatalMsg = "cache info not found"

\* The order of stages the specification gives, and the order of main.go.
ClaimedStageOrder == <<"download", "extract", "manifest", "gate", "place">>
PullStageOrder == <<"download", "manifest", "extract", "place">>

StackIds == {"", "X", "Y"}
CachedFiles == {"File.txt", "Other.txt"}

\* A plausible bug: an unset stack id is compared like any other.
CheckStack_UnsetCompared(m, c, allow) ==
    IF m = c THEN "proceed"
    ELSE IF allow THEN "proceed"
    ELSE "abort"

\* check(manifestStackId, currentStackId, allowFallback): equal or either unset
\* is proceed; different is abort unless fallback is allowed.
CheckStack(m, c, allow) ==
    IF m = c \/ m = "" \/ c = "" THEN "proceed"
    ELSE IF allow THEN "proceed"
    ELSE "abort"

InitRun ==
    /\ cfgURL \in {"", "https://store/archive"}
    /\ manifestStack \in StackIds
    /\ currentStack \in StackIds
    /\ allowFallback \in BOOLEAN
    /\ decision = "none"
    /\ mpc = "start"
    /\ extracted = FALSE /\ exited = FALSE /\ exitCode = 0 /\ fatalMsg = ""
    /\ placed = {} /\ stages = <<>> /\ stageDone = 0
    /\ arch = NoArchive /\ cacheInfo = [contents |-> <<>>]
    /\ tmpFiles = {} /\ placeIdx = 0 /\ itemRes = <<>> /\ warnLog = <<>>
    /\ ucRet = "none"
    /\ IdleRestore /\ IdleArchive /\ IdleFetch /\ IdleUntar

\* No cache source configured: a successful no-op.
RunStart ==
    /\ mpc = "start"
    /\ IF cfgURL = ""
       THEN /\ mpc' = "exit" /\ exited' = TRUE /\ exitCode' = 0
            /\ UNCHANGED stages
       ELSE /\ mpc' = "download"
            /\ stages' = Append(stages, "download")
            /\ UNCHANGED <<exited, exitCode>>
    /\ UNCHANGED <<cfgURL, extracted, fatalMsg, placed, stageDone, gateVars, frameRun>>

\* A stage that either fails, which is fatal, or completes and starts the next.
RunStage(at, next, msg) ==
    /\ mpc = at
    /\ \E ok \in BOOLEAN :
          IF ok
          THEN /\ mpc' = next
               /\ stageDone' = stageDone + 1
               /\ stages' = Append(stages, next)
               /\ extracted' = (extracted \/ at = "extract")
               /\ UNCHANGED <<exited, exitCode, fatalMsg>>
          ELSE /\ mpc' = "exit" /\ exited' = TRUE /\ exitCode' = 1
               /\ fatalMsg' = msg
               /\ UNCHANGED <<stages, stageDone, extracted>>
    /\ UNCHANGED <<cfgURL, placed, gateVars, frameRun>>

RunDownload == RunStage("download", "extract", "download")

RunExtract == RunStage("extract", "manifest", "extraction")

RunReadManifest == RunStage("manifest", "gate", "manifest not found")

\* A plausible bug: a mismatch is only logged.
RunGate_NeverAborts ==
    /\ mpc = "gate"
    /\ decision' = CheckStack(manifestStack, currentStack, allowFallback)
    /\ mpc' = "place"
    /\ stageDone' = stageDone + 1
    /\ stages' = Append(stages, "place")
    /\ UNCHANGED <<exited, exitCode, fatalMsg>>
    /\ UNCHANGED <<cfgURL, extracted, placed, manifestStack, currentStack,
                   allowFallback, frameRun>>

\* The gate: abort ends the run with a nonzero status, proceed starts placement.
RunGate ==
    /\ mpc = "gate"
    /\ decision' = CheckStack(manifestStack, currentStack, allowFallback)
    /\ IF decision' = "abort"
       THEN /\ mpc' = "exit" /\ exited' = TRUE /\ exitCode' = 1
            /\ fatalMsg' = "stack mismatch"
            /\ UNCHANGED <<stages, stageDone>>
       ELSE /\ mpc' = "place"
            /\ stageDone' = stageDone + 1
            /\ stages' = Append(stages, "place")
            /\ UNCHANGED <<exited, exitCode, fatalMsg>>
    /\ UNCHANGED <<cfgURL, extracted, placed, manifestStack, currentStack,
                   allowFallback, frameRun>>

\* Placement: any of the cached files may fail to be placed; the run succeeds.
RunPlace ==
    /\ mpc = "place"
    /\ \E ok \in SUBSET CachedFiles :
          placed' = {<<f, f>> : f \in ok}
    /\ stageDone' = stageDone + 1
    /\ mpc' = "exit" /\ exited' = TRUE /\ exitCode' = 0
    /\ UNCHANGED <<cfgURL, extracted, fatalMsg, stages, gateVars, frameRun>>

NextRun ==
    \/ RunStart
    \/ RunDownload
    \/ RunExtract
    \/ RunReadManifest
    \/ RunGate
    \/ RunPlace

SpecRun == InitRun /\ [][NextRun]_vars

StackMismatch ==
    manifestStack # "" /\ currentStack # "" /\ manifestStack # currentStack

\* C5: the gate's decision table.  The decision is abort exactly when both stack
\* ids are set, they differ and fallback is not allowed, and proceed in every
\* other case; deciding changes nothing but the decision and the course of the run.
GateDecisionTable ==
    /\ [](decision # "none" =>
            /\ decision \in {"proceed", "abort"}
            /\ (decision = "abort") <=> (StackMismatch /\ ~allowFallback))
    /\ [][mpc = "gate" =>
            UNCHANGED <<placed, extracted, tmpFiles, manifestStack, currentStack,
                        allowFallback, cfgURL>>]_vars

\* The manifest's stack id is unset, fallback is off, and the gate said proceed.
GateUnsetWitness ==
    /\ decision = "proceed"
    /\ manifestStack = ""
    /\ currentStack = "Y"
    /\ ~allowFallback

RECURSIVE Clean(_, _)
Clean(acc, p) ==
    IF p = <<>> THEN acc
    ELSE IF Head(p) = ".." /\ acc # <<>> /\ acc[Len(acc)] # ".."
    THEN Clean(SubSeq(acc, 1, Len(acc) - 1), Tail(p))
    ELSE Clean(Append(acc, Head(p)), Tail(p))

Join(a, b) == Clean(<<>>, a \o b)

Dir(p) == IF Len(p) <= 1 THEN <<>> ELSE SubSeq(p, 1, Len(p) - 1)

Prefixes(p) == {SubSeq(p, 1, k) : k \in 1..Len(p)}

\* The filesystem: the directories, and the other nodes by path.  A node is a
\* file, a symbolic link or a further name of a file (a hard link).
IsDir(fs, p) == p = <<>> \/ p \in fs.dirs
Exists(fs, p) == IsDir(fs, p) \/ p \in DOMAIN fs.nodes
SetNode(fs, p, n) ==
    [dirs |-> fs.dirs,
     nodes |-> [q \in DOMAIN fs.nodes \cup {p} |-> IF q = p THEN n ELSE fs.nodes[q]]]

\* One filesystem call and whether it succeeded.
FsCall(op, path, target, ok) == [op |-> op, path |-> path, target |-> target, ok |-> ok]

\* fmt.Errorf("%s: ...", path, ...): the path the message starts with and what
\* failed; and the nil error.
Errorf(path, msg) == [msg |-> msg, path |-> path]
Nil == [msg |-> "nil", path |-> <<>>]

\* os.MkdirAll(p, 0755): nothing to do for a directory that exists; otherwise
\* p and its missing parents are made, unless a file is in the way or the
\* system refuses (sysOk).
MkdirAll(fs, p, sysOk) ==
    IF IsDir(fs, p) THEN [fs |-> fs, ok |-> TRUE]
    ELSE IF ~sysOk \/ Prefixes(p) \cap DOMAIN fs.nodes # {}
    THEN [fs |-> fs, ok |-> FALSE]
    ELSE [fs |-> [dirs |-> fs.dirs \cup Prefixes(p), nodes |-> fs.nodes], ok |-> TRUE]

\* os.Create(p): a new empty file with the default permissions 0666 (438), or
\* the existing file truncated; it fails on a directory, without the parent
\* directory, or when the system refuses.
OsCreate(fs, p, sysOk) ==
    IF ~sysOk \/ IsDir(fs, p) \/ ~IsDir(fs, Dir(p))
    THEN [fs |-> fs, ok |-> FALSE]
    ELSE IF p \in DOMAIN fs.nodes
    THEN [fs |-> SetNode(fs, p, [fs.nodes[p] EXCEPT !.data = <<>>]), ok |-> TRUE]
    ELSE [fs |-> SetNode(fs, p, [kind |-> "file", data |-> <<>>, perm |-> 438,
                                 target |-> <<>>]),
          ok |-> TRUE]

\* (*os.File).Chmod(fm): the permission bits of fm become the file's.
FileChmod(fs, p, fm, sysOk) ==
    IF ~sysOk THEN [fs |-> fs, ok |-> FALSE]
    ELSE [fs |-> SetNode(fs, p, [fs.nodes[p] EXCEPT !.perm = fm.perm]), ok |-> TRUE]

\* io.Copy(out, in): the payload is appended to the file; when the copy fails
\* after failAt units (failAt >= 0) only those are in the file.
IoCopy(fs, p, in, failAt) ==
    IF failAt < 0
    THEN [fs |-> SetNode(fs, p, [fs.nodes[p] EXCEPT !.data = @ \o in]), ok |-> TRUE]
    ELSE [fs |-> SetNode(fs, p, [fs.nodes[p] EXCEPT
                                    !.data = @ \o Take(in, Min(failAt, Len(in)))]),
          ok |-> FALSE]

\* os.Symlink(target, p): p must not exist, its directory must.
OsSymlink(fs, target, p, sysOk) ==
    IF ~sysOk \/ Exists(fs, p) \/ ~IsDir(fs, Dir(p))
    THEN [fs |-> fs, ok |-> FALSE]
    ELSE [fs |-> SetNode(fs, p, [kind |-> "symlink", data |-> <<>>, perm |-> 511,
                                 target |-> target]),
          ok |-> TRUE]

\* os.Link(target, p): target must be an existing file, p must not exist.
OsLink(fs, target, p, sysOk) ==
    IF ~sysOk \/ target \notin DOMAIN fs.nodes \/ Exists(fs, p) \/ ~IsDir(fs, Dir(p))
    THEN [fs |-> fs, ok |-> FALSE]
    ELSE [fs |-> SetNode(fs, p, [fs.nodes[target] EXCEPT !.kind = "hardlink",
                                                          !.target = target]),
          ok |-> TRUE]

\* The type flags of archive/tar that reach untarFile.  The last two are the
\* kinds untarFile has no case for.
FileTypeflags == {"TypeReg", "TypeRegA", "TypeChar", "TypeBlock", "TypeFifo"}
SupportedTypeflags == {"TypeDir", "TypeSymlink", "TypeLink"} \cup FileTypeflags
Typeflags == SupportedTypeflags \cup {"TypeCont", "TypeXGlobalHeader"}

\* header.FileInfo().Mode(): the permission bits of the header's mode field
\* (which may carry the file type bits of the tar format above them) and the
\* file type, taken from the type flag.
FileInfoMode(h) ==
    [perm |-> h.mode % 512,
     type |-> CASE h.typeflag = "TypeDir" -> "ModeDir"
                [] h.typeflag = "TypeSymlink" -> "ModeSymlink"
                [] h.typeflag = "TypeChar" -> "ModeCharDevice"
                [] h.typeflag = "TypeBlock" -> "ModeDevice"
                [] h.typeflag = "TypeFifo" -> "ModeNamedPipe"
                [] OTHER -> "regular"]

\* What the system does to the calls of one handler: whether MkdirAll, Create,
\* Chmod and Symlink/Link are refused, and after how many units the copy fails
\* (-1: it does not).  The answer to a call that a handler cannot reach after
\* the refusals before it is kept at one value.
SysOutcomes ==
    {o \in [mk : BOOLEAN, cr : BOOLEAN, ch : BOOLEAN, ln : BOOLEAN, failAt : -1..1] :
        /\ (~o.mk) => (o.cr /\ o.ln)
        /\ (~o.cr) => (o.ch /\ o.failAt = -1)
        /\ (~o.ln) => (o.cr /\ o.ch /\ o.failAt = -1)
        /\ (~o.ch \/ o.failAt >= 0) => o.ln}

\* mkdir, part_001:179-185.
Mkdir(fs, dirPath, o) ==
    LET mk == MkdirAll(fs, dirPath, o.mk)
        c1 == FsCall("mkdirAll", dirPath, <<>>, mk.ok)
    IN  [fs |-> mk.fs, ops |-> <<c1>>,
         err |-> IF mk.ok THEN Nil ELSE Errorf(dirPath, "making directory")]

\* A plausible bug: the Chmod error is returned on every platform.
WriteNewFile_ChmodStrict(fs, fpath, in, fm, os, o) ==
    LET mk == MkdirAll(fs, Dir(fpath), o.mk)
        c1 == FsCall("mkdirAll", Dir(fpath), <<>>, mk.ok)
        cr == OsCreate(mk.fs, fpath, o.cr)
        c2 == FsCall("create", fpath, <<>>, cr.ok)
        ch == FileChmod(cr.fs, fpath, fm, o.ch)
        c3 == FsCall("chmod", fpath, <<>>, ch.ok)
        cp == IoCopy(ch.fs, fpath, in, o.failAt)
        c4 == FsCall("copy", fpath, <<>>, cp.ok)
    IN  IF ~mk.ok
        THEN [fs |-> mk.fs, ops |-> <<c1>>,
              err |-> Errorf(fpath, "making directory for file")]
        ELSE IF ~cr.ok
        THEN [fs |-> cr.fs, ops |-> <<c1, c2>>, err |-> Errorf(fpath, "creating new file")]
        ELSE IF ~ch.ok
        THEN [fs |-> ch.fs, ops |-> <<c1, c2, c3>>,
              err |-> Errorf(fpath, "changing file mode")]
        ELSE [fs |-> cp.fs, ops |-> <<c1, c2, c3, c4>>,
              err |-> IF cp.ok THEN Nil ELSE Errorf(fpath, "writing file")]

\* writeNewFile, part_001:127-149: MkdirAll of the directory, Create, Chmod (its
\* error is passed over on windows), Copy.
WriteNewFile(fs, fpath, in, fm, os, o) ==
    LET mk == MkdirAll(fs, Dir(fpath), o.mk)
        c1 == FsCall("mkdirAll", Dir(fpath), <<>>, mk.ok)
        cr == OsCreate(mk.fs, fpath, o.cr)
        c2 == FsCall("create", fpath, <<>>, cr.ok)
        ch == FileChmod(cr.fs, fpath, fm, o.ch)
        c3 == FsCall("chmod", fpath, <<>>, ch.ok)
        cp == IoCopy(ch.fs, fpath, in, o.failAt)
        c4 == FsCall("copy", fpath, <<>>, cp.ok)
    IN  IF ~mk.ok
        THEN [fs |-> mk.fs, ops |-> <<c1>>,
              err |-> Errorf(fpath, "making directory for file")]
        ELSE IF ~cr.ok
        THEN [fs |-> cr.fs, ops |-> <<c1, c2>>, err |-> Errorf(fpath, "creating new file")]
        ELSE IF ~ch.ok /\ os # "windows"
        THEN [fs |-> ch.fs, ops |-> <<c1, c2, c3>>,
              err |-> Errorf(fpath, "changing file mode")]
        ELSE [fs |-> cp.fs, ops |-> <<c1, c2, c3, c4>>,
              err |-> IF cp.ok THEN Nil ELSE Errorf(fpath, "writing file")]

\* writeNewSymbolicLink, part_001:151-163.
WriteNewSymbolicLink(fs, fpath, target, o) ==
    LET mk == MkdirAll(fs, Dir(fpath), o.mk)
        c1 == FsCall("mkdirAll", Dir(fpath), <<>>, mk.ok)
        ln == OsSymlink(mk.fs, target, fpath, o.ln)
        c2 == FsCall("symlink", fpath, target, ln.ok)
    IN  IF ~mk.ok
        THEN [fs |-> mk.fs, ops |-> <<c1>>,
              err |-> Errorf(fpath, "making directory for file")]
        ELSE [fs |-> ln.fs, ops |-> <<c1, c2>>,
              err |-> IF ln.ok THEN Nil ELSE Errorf(fpath, "making symbolic link for")]

\* writeNewHardLink, part_001:165-177.
WriteNewHardLink(fs, fpath, target, o) ==
    LET mk == MkdirAll(fs, Dir(fpath), o.mk)
        c1 == FsCall("mkdirAll", Dir(fpath), <<>>, mk.ok)
        ln == OsLink(mk.fs, target, fpath, o.ln)
        c2 == FsCall("link", fpath, target, ln.ok)
    IN  IF ~mk.ok
        THEN [fs |-> mk.fs, ops |-> <<c1>>,
              err |-> Errorf(fpath, "making directory for file")]
        ELSE [fs |-> ln.fs, ops |-> <<c1, c2>>,
              err |-> IF ln.ok THEN Nil ELSE Errorf(fpath, "making hard link for")]

\* The result of a handler, with the handler's name.
By(handler, res) ==
    [fs |-> res.fs, ops |-> res.ops, err |-> res.err, handler |-> handler]

\* A plausible bug: the case list misses a type flag (TypeFifo).
UntarFile_NoFifo(fs, header, os, o) ==
    CASE header.typeflag = "TypeDir" ->
            By("mkdir", Mkdir(fs, header.name, o))
      [] header.typeflag \in FileTypeflags \ {"TypeFifo"} ->
            By("writeNewFile",
               WriteNewFile(fs, header.name, header.payload, FileInfoMode(header), os, o))
      [] header.typeflag = "TypeSymlink" ->
            By("writeNewSymbolicLink",
               WriteNewSymbolicLink(fs, header.name, header.linkname, o))
      [] header.typeflag = "TypeLink" ->
            By("writeNewHardLink",
               WriteNewHardLink(fs, header.name, Join(header.name, header.linkname), o))
      [] OTHER ->
            By("none", [fs |-> fs, ops |-> <<>>,
                        err |-> Errorf(header.name, "unknown type flag")])

\* untarFile, part_001:112-125: the switch on header.Typeflag.
UntarFile(fs, header, os, o) ==
    CASE header.typeflag = "TypeDir" ->
            By("mkdir", Mkdir(fs, header.name, o))
      [] header.typeflag \in FileTypeflags ->
            By("writeNewFile",
               WriteNewFile(fs, header.name, header.payload, FileInfoMode(header), os, o))
      [] header.typeflag = "TypeSymlink" ->
            By("writeNewSymbolicLink",
               WriteNewSymbolicLink(fs, header.name, header.linkname, o))
      [] header.typeflag = "TypeLink" ->
            By("writeNewHardLink",
               WriteNewHardLink(fs, header.name, Join(header.name, header.linkname), o))
      [] OTHER ->
            By("none", [fs |-> fs, ops |-> <<>>,
                        err |-> Errorf(header.name, "unknown type flag")])

\* The entries an archive may hold.  Entries for different handlers have
\* different names, so that no handler meets a node of another kind at its path; only
\* regular files carry a payload; only links carry a link name.  The mode field
\* is 0644, or for a regular file also 0100755 with the file type bits of the
\* tar format.
PathsOf(typeflag) ==
    CASE typeflag = "TypeDir" -> {<<"d">>}
      [] typeflag \in {"TypeReg", "TypeRegA"} -> {<<"f">>, <<"d", "f">>}
      [] typeflag \in FileTypeflags -> {<<"d", "f">>}
      [] typeflag = "TypeSymlink" -> {<<"d", "s">>}
      [] typeflag = "TypeLink" -> {<<"l">>, <<"d", "l">>}
      [] OTHER -> {<<"d", "x">>}

LinkNames == {<<"f">>, <<"..", "f">>}

TarHeaders ==
    {h \in [typeflag : Typeflags,
            name : UNION {PathsOf(t) : t \in Typeflags},
            linkname : LinkNames \cup {<<>>},
            mode : {420, 33261},
            payload : {<<>>, <<"p1", "p2">>}] :
        /\ h.name \in PathsOf(h.typeflag)
        /\ (h.linkname # <<>>) <=> (h.typeflag \in {"TypeSymlink", "TypeLink"})
        /\ (h.payload # <<>>) <=> (h.typeflag \in {"TypeReg", "TypeRegA"})
        /\ (h.typeflag \notin {"TypeReg", "TypeRegA"}) => h.mode = 420}

InitUntar ==
    /\ goos \in {"linux", "windows"}
    /\ tarEntries \in SeqsUpTo(TarHeaders, MaxTarEntries)
    /\ utIdx = 1
    /\ utpc = "run"
    /\ fsys = [dirs |-> {}, nodes |-> <<>>]
    /\ fsOps = <<>>
    /\ utRes = <<>>
    /\ IdleRestore /\ IdleArchive /\ IdleFetch /\ IdleMain /\ IdlePull /\ IdleGate

\* One turn of the extraction loop: untarFile on the next entry; its error ends
\* the extraction.
ExtractEntry ==
    /\ utpc = "run"
    /\ utIdx <= Len(tarEntries)
    /\ \E o \in SysOutcomes :
          LET res == UntarFile(fsys, tarEntries[utIdx], goos, o) IN
          /\ fsys' = res.fs
          /\ fsOps' = fsOps \o [k \in 1..Len(res.ops) |->
                                   [entry |-> utIdx, call |-> res.ops[k]]]
          /\ utRes' = Append(utRes, [handler |-> res.handler, err |-> res.err])
          /\ IF res.err = Nil
             THEN utIdx' = utIdx + 1 /\ utpc' = "run"
             ELSE utIdx' = utIdx /\ utpc' = "failed"
    /\ UNCHANGED <<goos, tarEntries, frameUntar>>

\* The end of the archive ends the loop.
ExtractEof ==
    /\ utpc = "run"
    /\ utIdx > Len(tarEntries)
    /\ utpc' = "done"
    /\ UNCHANGED <<goos, tarEntries, utIdx, fsys, fsOps, utRes, frameUntar>>

NextUntar ==
    \/ ExtractEntry
    \/ ExtractEof

SpecUntar == InitUntar /\ [][NextUntar]_vars

\* The filesystem calls made for entry i, in order, and their names.
CallsOf(i) ==
    LET mine == SelectSeq(fsOps, LAMBDA c : c.entry = i)
    IN  [k \in 1..Len(mine) |-> mine[k].call]
CallNames(i) == [k \in 1..Len(CallsOf(i)) |-> CallsOf(i)[k].op]

\* The entries handled so far that writeNewFile is for.
FileEntriesHandled ==
    {i \in 1..Len(utRes) : tarEntries[i].typeflag \in FileTypeflags}

\* A call that does not end the handler: it succeeded, or it is the Chmod on
\* windows.
PassedOver(c) == c.ok \/ (c.op = "chmod" /\ goos = "windows")

\* C13 as stated: the steps for a regular/device/fifo entry are, in this order,
\* create parent directories, create the file, copy the payload, apply the mode.
FileStepsClaimedOrder ==
    \A i \in FileEntriesHandled :
        IsPrefix(CallNames(i), <<"mkdirAll", "create", "copy", "chmod">>)

\* C13 as amended: the steps for a regular/device/fifo entry are, in this order,
\* create parent directories, create (or truncate) the file, apply the recorded
\* permission bits, copy the payload; each step is made only when the steps
\* before it did not fail.  A failure to apply the mode is an error that ends
\* the handler before anything is copied (the file is left empty), except on
\* windows, where it is ignored and the payload is still copied.  Without an
\* error the file holds exactly the payload, with the recorded permission bits
\* when they could be applied.
FileStepsInOrder ==
    \A i \in FileEntriesHandled :
        LET calls == CallsOf(i)
            h == tarEntries[i]
            err == utRes[i].err
            n == Len(calls)
        IN  /\ n >= 1
            /\ IsPrefix(CallNames(i), <<"mkdirAll", "create", "chmod", "copy">>)
            /\ calls[1].path = Dir(h.name)
            /\ \A k \in 2..n : calls[k].path = h.name
            /\ \A k \in 1..(n - 1) : PassedOver(calls[k])
            /\ (err = Nil) <=> (n = 4 /\ \A k \in 1..n : PassedOver(calls[k]))
            /\ (err # Nil) => err.path = h.name
            /\ (n >= 3 /\ ~calls[3].ok /\ goos # "windows") =>
                  /\ n = 3
                  /\ err = Errorf(h.name, "changing file mode")
                  /\ (i = Len(utRes) => fsys.nodes[h.name].data = <<>>)
            /\ (n >= 3 /\ ~calls[3].ok /\ goos = "windows") => n = 4
            /\ (err = Nil /\ i = Len(utRes)) =>
                  /\ fsys.nodes[h.name].data = h.payload
                  /\ calls[3].ok => fsys.nodes[h.name].perm = h.mode % 512

\* On windows the mode of a regular file could not be applied; no error was
\* returned and the file holds the payload.
FileStepsWitness ==
    /\ goos = "windows"
    /\ \E i \in FileEntriesHandled :
          /\ i = Len(utRes)
          /\ tarEntries[i].payload # <<>>
          /\ Len(CallsOf(i)) = 4
          /\ ~CallsOf(i)[3].ok
          /\ utRes[i].err = Nil
          /\ fsys.nodes[tarEntries[i].name].data = tarEntries[i].payload

\* C14: for a hard-link entry with path P and link name T the hard link is made
\* at P, to T resolved against the directory that holds P (dir(P)/T), once the
\* directories above P exist.
HardLinkAgainstEntryDir ==
    \A k \in 1..Len(fsOps) :
        (fsOps[k].call.op = "link") =>
            LET h == tarEntries[fsOps[k].entry] IN
            /\ fsOps[k].call.path = h.name
            /\ fsOps[k].call.target = Join(Dir(h.name), h.linkname)
            /\ k > 1
            /\ fsOps[k - 1] = [entry |-> fsOps[k].entry,
                               call |-> FsCall("mkdirAll", Dir(h.name), <<>>, TRUE)]

\* The handler each kind of entry is for, and the filesystem calls that are the
\* handler's own.
HandlerFor(typeflag) ==
    CASE typeflag = "TypeDir" -> "mkdir"
      [] typeflag \in {"TypeReg", "TypeRegA", "TypeChar", "TypeBlock", "TypeFifo"} ->
            "writeNewFile"
      [] typeflag = "TypeSymlink" -> "writeNewSymbolicLink"
      [] typeflag = "TypeLink" -> "writeNewHardLink"
      [] OTHER -> "none"

CallsFor(handler) ==
    CASE handler = "mkdir" -> {"mkdirAll"}
      [] handler = "writeNewFile" -> {"mkdirAll", "create", "chmod", "copy"}
      [] handler = "writeNewSymbolicLink" -> {"mkdirAll", "symlink"}
      [] handler = "writeNewHardLink" -> {"mkdirAll", "link"}
      [] OTHER -> {}

\* The entry about to be handled is of a kind untarFile has no case for.
AtUnsupportedEntry ==
    /\ utpc = "run"
    /\ utIdx <= Len(tarEntries)
    /\ HandlerFor(tarEntries[utIdx].typeflag) = "none"

\* C15: the entries are handled one by one in archive order, each by the
\* handler of its kind: a directory, regular/char/block/fifo, symlink or
\* hard-link entry is given to its own handler, which makes that handler's
\* filesystem calls, and never yields the unknown-type error; an entry of any
\* other kind yields an error that names the entry's path, no filesystem call
\* is made for it and the filesystem stays as it was; an error ends the
\* extraction, so no later entry is handled.
DispatchByKind ==
    /\ [](/\ Len(utRes) = (IF utpc = "failed" THEN utIdx ELSE utIdx - 1)
          /\ \A k \in 1..Len(fsOps) :
                /\ fsOps[k].entry \in 1..Len(utRes)
                /\ (k > 1 => fsOps[k - 1].entry <= fsOps[k].entry)
          /\ \A i \in 1..Len(utRes) :
                LET h == tarEntries[i]
                    r == utRes[i]
                IN  /\ r.handler = HandlerFor(h.typeflag)
                    /\ \A k \in 1..Len(CallsOf(i)) : CallsOf(i)[k].op \in CallsFor(r.handler)
                    /\ (r.handler # "none") =>
                          /\ r.err.msg # "unknown type flag"
                          /\ CallsOf(i) # <<>>
                    /\ (r.handler = "none") =>
                          /\ r.err = [msg |-> "unknown type flag", path |-> h.name]
                          /\ CallsOf(i) = <<>>
                    /\ (r.err.msg # "nil") => (i = Len(utRes) /\ utpc = "failed"))
    /\ [][AtUnsupportedEntry => (fsys' = fsys /\ utpc' = "failed")]_vars

\* A fifo entry was extracted by writeNewFile, then an entry of an unsupported
\* kind ended the extraction with the unknown-type error.
DispatchWitness ==
    /\ utpc = "failed"
    /\ Len(utRes) = 2
    /\ tarEntries[1].typeflag = "TypeFifo"
    /\ utRes[1] = [handler |-> "writeNewFile", err |-> Nil]
    /\ tarEntries[1].name \in DOMAIN fsys.nodes
    /\ tarEntries[2].typeflag = "TypeXGlobalHeader"
    /\ utRes[2].err.msg = "unknown type flag"
====
